---- MODULE Spec2Model ----
(***************************************************************************)
(* Model of the py-ups-rs UPS-RS server: the work-item store and its       *)
(* request handlers, the subscription store and service, the connection    *)
(* manager (channel registry) and the notification service (event builder, *)
(* fan-out, pending queue and connect-time drain).                         *)
(*                                                                         *)
(* Request handlers read the request body with one await and then run      *)
(* synchronously, so each handler is one action.  The fan-out schedules    *)
(* send_message coroutines on the event loop ("fire and forget"); each of  *)
(* them runs later as its own step.  The connect callback awaits one send  *)
(* per queued event, so the drain advances one event per step.             *)
(*                                                                         *)
(* A request body is parsed into a WorkItem that wraps the parsed dataset: *)
(* every handler uses the result of deserialize_workitem through .ds and   *)
(* .uid, and the stored objects carry status and transaction_uid.          *)
(***************************************************************************)
EXTENDS Integers, Sequences, FiniteSets, TLC

\* notification_service.get_next_message_id wraps above this value.
MaxMessageID == 65534

(***************************************************************************)
(* Bounds of the model.                                                    *)
(***************************************************************************)
MaxMsgId == 7
MaxCreatedAt == 4
MaxChannels == 2
IdWindow == 120
MaxRequests == 2

(***************************************************************************)
(* Values.                                                                 *)
(***************************************************************************)
None == "None"
Absent == "absent"
NoItem == [status |-> None]

SCHEDULED == "SCHEDULED"
IN_PROGRESS == "IN PROGRESS"
COMPLETED == "COMPLETED"
CANCELED == "CANCELED"
WorkItemStatus == {SCHEDULED, IN_PROGRESS, COMPLETED, CANCELED}

GLOBAL_SUBSCRIPTION_UID == "1.2.840.10008.5.1.4.34.5"
FILTERED_SUBSCRIPTION_UID == "1.2.840.10008.5.1.4.34.5.1"

WorkItemUIDs == {"W1", "W2"}
TransactionUIDs == {"T1", "T2"}
AETitles == {"AE1", "AE2"}
Targets == WorkItemUIDs \cup {GLOBAL_SUBSCRIPTION_UID, FILTERED_SUBSCRIPTION_UID}

\* A dataset carries three elements; each may be absent.
Datasets == [ProcedureStepState : WorkItemStatus \cup {Absent},
             InputReadinessState : {"READY", Absent},
             ScheduledProcedureStepStartDateTime : {"D1", "D2", Absent}]

EmptyDataset == [ProcedureStepState |-> Absent, InputReadinessState |-> Absent,
                 ScheduledProcedureStepStartDateTime |-> Absent]

VARIABLES
    local_store,              \* workitem_repository.local_store: uid -> WorkItem
    store_order,              \* insertion order of the keys of local_store
    subscription_store,       \* subscription_repository._local_store: set of Subscription
    connections,              \* ConnectionManager.connections: subscriber -> channel
    subscriptions,            \* ConnectionManager.subscriptions: uid -> set of subscribers
    subscriber_to_workitems,  \* ConnectionManager.subscriber_to_workitems
    pending_notifications,    \* NotificationService.pending_notifications
    message_id,               \* notification_service._message_id
    sendq,                    \* send_message coroutines scheduled on the event loop
    tasks,                    \* handle_connection tasks, one per accepted channel
    created_clock,            \* datetime.now() as seen by Subscription.created_at
    sent,                     \* frames written to each subscriber's channels
    resp,                     \* the last response
    suspension,               \* history: each subscriber's current suspension of GLOBAL
    requests                  \* state requests in flight: position and, as history, outcome

vars == <<local_store, store_order, subscription_store, connections, subscriptions,
          subscriber_to_workitems, pending_notifications, message_id, sendq,
          tasks, created_clock, sent, resp, suspension, requests>>

wiVars == <<local_store, store_order>>
subVars == <<subscription_store, subscriptions, subscriber_to_workitems, created_clock>>
chanVars == <<connections, tasks>>

(***************************************************************************)
(* Domain model (domain/models/ups.py).                                    *)
(***************************************************************************)
WorkItem(ds) ==
    [status |-> SCHEDULED, transaction_uid |-> None, ds |-> ds]

update_procedure_step_status(workitem, new_status) ==
    [workitem EXCEPT !.status = new_status,
                     !.ds.ProcedureStepState = new_status]

Subscription(workitem_uid, ae_title, created_at, deletion_lock, filter, suspended) ==
    [workitem_uid |-> workitem_uid, ae_title |-> ae_title, created_at |-> created_at,
     deletion_lock |-> deletion_lock, filter |-> filter, suspended |-> suspended]

(***************************************************************************)
(* Work-item repository (storage/repositories/workitem_repository.py).     *)
(***************************************************************************)
get_by_uid(store, uid) == store[uid]

\* Dataset.update: the incoming dataset overrides per element.
ds_update(stored_ds, change_ds) ==
    [k \in DOMAIN stored_ds |->
        IF change_ds[k] # Absent THEN change_ds[k] ELSE stored_ds[k]]

repo_create(store, uid, workitem) == [store EXCEPT ![uid] = workitem]

repo_update(store, uid, change_ds) ==
    [store EXCEPT ![uid].ds = ds_update(store[uid].ds, change_ds)]

(***************************************************************************)
(* Event builder (websocket/notification_service.py).                      *)
(***************************************************************************)
get_next_message_id(m) == IF m > MaxMessageID THEN 1 ELSE m + 1

UPSStateReport == 1
UPSAssigned == 5

\* _PROCEDURE_STEP_STATES.get(procedure_step_state, "SCHEDULED")
defined_state(procedure_step_state) ==
    IF procedure_step_state \in WorkItemStatus THEN procedure_step_state ELSE SCHEDULED

_create_workitem_event_report(mid, uid, event_type_id, procedure_step_state) ==
    [MessageID |-> mid, AffectedSOPInstanceUID |-> uid, EventTypeID |-> event_type_id,
     ProcedureStepState |-> defined_state(procedure_step_state)]

create_ups_state_report(mid, uid, procedure_step_state) ==
    _create_workitem_event_report(mid, uid, UPSStateReport, procedure_step_state)

create_ups_assigned_report(mid, uid) ==
    _create_workitem_event_report(mid, uid, UPSAssigned, SCHEDULED)

\* workitem.ds.ProcedureStepState and workitem.ds.InputReadinessState raise
\* AttributeError when the element is absent.
report_raises(workitem) ==
    \/ workitem.ds.ProcedureStepState = Absent
    \/ workitem.ds.InputReadinessState = Absent

(***************************************************************************)
(* Subscription repository: _local_store is a Python set; its iteration    *)
(* order is arbitrary but stable, so it is kept as a sequence without      *)
(* duplicates into which add inserts at an arbitrary place.                *)
(***************************************************************************)
SeqToSet(q) == {q[i] : i \in 1..Len(q)}

RemoveAt(q, i) == SubSeq(q, 1, i - 1) \o SubSeq(q, i + 1, Len(q))

InsertAt(q, i, x) == SubSeq(q, 1, i - 1) \o <<x>> \o SubSeq(q, i, Len(q))

get_by_ae_title(store, ae_title) ==
    SelectSeq(store, LAMBDA x : x.ae_title = ae_title)

get_by_workitem_and_ae_title(store, workitem_uid, ae_title) ==
    SelectSeq(store, LAMBDA x : x.ae_title = ae_title /\ x.workitem_uid = workitem_uid)

_discard_suspended_equivalent(store, subscription) ==
    SelectSeq(store, LAMBDA x : ~(/\ x.ae_title = subscription.ae_title
                                  /\ x.workitem_uid = subscription.workitem_uid
                                  /\ x.suspended))

\* The possible stores after SubscriptionRepository.create.
sub_repo_create(store, subscription) ==
    LET kept == _discard_suspended_equivalent(store, subscription)
    IN  IF subscription \in SeqToSet(kept)
        THEN {kept}
        ELSE {InsertAt(kept, i, subscription) : i \in 1..(Len(kept) + 1)}

\* SubscriptionRepository.delete: the first row with the key, in iteration order.
first_with_key(store, workitem_uid, ae_title) ==
    IF \E i \in 1..Len(store) :
           store[i].ae_title = ae_title /\ store[i].workitem_uid = workitem_uid
    THEN CHOOSE i \in 1..Len(store) :
           /\ store[i].ae_title = ae_title /\ store[i].workitem_uid = workitem_uid
           /\ \A j \in 1..(i - 1) :
                 ~(store[j].ae_title = ae_title /\ store[j].workitem_uid = workitem_uid)
    ELSE 0

sub_repo_delete(store, workitem_uid, ae_title) ==
    LET i == first_with_key(store, workitem_uid, ae_title)
    IN  IF i = 0 THEN store ELSE RemoveAt(store, i)

(***************************************************************************)
(* Connection manager indices (websocket/connection_manager.py).           *)
(* subscriptions[uid] has a key only after the first subscribe to uid.     *)
(***************************************************************************)
get_subscribers(idx, workitem_uid) ==
    IF idx[workitem_uid].present THEN idx[workitem_uid].subs ELSE {}

cm_subscribe_subscriptions(idx, subscriber_id, workitem_uid) ==
    [idx EXCEPT ![workitem_uid] =
        [present |-> TRUE, subs |-> get_subscribers(idx, workitem_uid) \cup {subscriber_id}]]

cm_subscribe_reverse(s2w, subscriber_id, workitem_uid) ==
    [s2w EXCEPT ![subscriber_id] = @ \cup {workitem_uid}]

cm_unsubscribe_subscriptions(idx, subscriber_id, workitem_uid) ==
    [idx EXCEPT ![workitem_uid].subs = @ \ {subscriber_id}]

cm_unsubscribe_reverse(s2w, subscriber_id, workitem_uid) ==
    [s2w EXCEPT ![subscriber_id] = @ \ {workitem_uid}]

(***************************************************************************)
(* Fan-out (NotificationService._send_notification).                       *)
(***************************************************************************)
\* match_query_to_dataset for a filter on ProcedureStepState.
match_query_to_dataset(filter, ds) ==
    /\ ds.ProcedureStepState # Absent
    /\ filter = ds.ProcedureStepState

_match_on_filter(sstore, lstore, filtered_subscribers, workitem_uid) ==
    {s \in filtered_subscribers :
        \E i \in 1..Len(sstore) :
            /\ sstore[i].ae_title = s
            /\ sstore[i].filter # None
            /\ lstore[workitem_uid] # NoItem
            /\ match_query_to_dataset(sstore[i].filter, lstore[workitem_uid].ds)}

\* The subscribers the loop of _send_notification visits.
notified_subscribers(idx, sstore, lstore, workitem_uid) ==
    get_subscribers(idx, workitem_uid)
        \cup get_subscribers(idx, GLOBAL_SUBSCRIPTION_UID)
        \cup _match_on_filter(sstore, lstore,
                              get_subscribers(idx, FILTERED_SUBSCRIPTION_UID), workitem_uid)

\* "if subscription and subscription[0].suspended: continue"
is_skipped(sstore, subscriber_id) ==
    LET subscription == get_by_ae_title(sstore, subscriber_id)
    IN  Len(subscription) > 0 /\ subscription[1].suspended

\* The orders in which a Python set may be iterated.
Orders(S) ==
    {q \in [1..Cardinality(S) -> S] : \A i, j \in 1..Cardinality(S) : i # j => q[i] # q[j]}

\* get_subscribers returns the stored set itself, so the adds of the global and
\* the matching subscribers land in subscriptions[workitem_uid] when it has a key.
\* Result: the possible [subscriptions, sendq] after the call.
_send_notification(idx, q, sstore, lstore, workitem_uid, message) ==
    LET subscribers == notified_subscribers(idx, sstore, lstore, workitem_uid)
        idx2 == IF idx[workitem_uid].present
                THEN [idx EXCEPT ![workitem_uid].subs = subscribers]
                ELSE idx
    IN  {[subscriptions |-> idx2,
          sendq |-> q \o [i \in 1..Len(sent_to) |->
                            [subscriber_id |-> sent_to[i], message |-> message]]] :
            sent_to \in {SelectSeq(o, LAMBDA s : ~is_skipped(sstore, s)) :
                            o \in Orders(subscribers)}}

\* notify_creation: a State report, then an Assigned report.
notify_creation(idx, q, mid, sstore, lstore, uid) ==
    LET m1 == get_next_message_id(mid)
        m2 == get_next_message_id(m1)
        e1 == create_ups_state_report(m1, uid, lstore[uid].ds.ProcedureStepState)
        e2 == create_ups_assigned_report(m2, uid)
    IN  UNION {{[subscriptions |-> o2.subscriptions, sendq |-> o2.sendq, message_id |-> m2] :
                    o2 \in _send_notification(o1.subscriptions, o1.sendq, sstore, lstore, uid, e2)} :
               o1 \in _send_notification(idx, q, sstore, lstore, uid, e1)}

\* notify_status_change: one State report.
notify_status_change(idx, q, mid, sstore, lstore, uid) ==
    LET m1 == get_next_message_id(mid)
        e1 == create_ups_state_report(m1, uid, lstore[uid].ds.ProcedureStepState)
    IN  {[subscriptions |-> o1.subscriptions, sendq |-> o1.sendq, message_id |-> m1] :
            o1 \in _send_notification(idx, q, sstore, lstore, uid, e1)}

\* A state request in flight.  pc: "idle" (not sent), "body" (the handler
\* awaits req.stream.read()), "done".  History: seen, the stored item when the
\* request arrived; code, the answer; events, the event reports it issued.
RequestIds == 1..MaxRequests

NoRequest == [pc |-> "idle", uid |-> None, state |-> None, tuid |-> None,
              seen |-> NoItem, code |-> 0, events |-> 0]

(***************************************************************************)
(* Initial state: empty stores, no channel, _message_id = 1.               *)
(***************************************************************************)
NoResp == [op |-> "none", uid |-> None, code |-> 0, arg |-> None, tuid |-> None]

Response(op, uid, code, arg, tuid) ==
    [op |-> op, uid |-> uid, code |-> code, arg |-> arg, tuid |-> tuid]

\* History kept for each subscriber: whether its GLOBAL subscription is
\* suspended, the last message id issued when the suspend request returned, and
\* the work items created or changed since.
NoSuspension == [active |-> FALSE, since |-> 0, touched |-> {}]

touch(uid) ==
    [s \in AETitles |->
        IF suspension[s].active /\ local_store'[uid] # local_store[uid]
        THEN [suspension[s] EXCEPT !.touched = @ \cup {uid}]
        ELSE suspension[s]]

Init ==
    /\ local_store = [u \in WorkItemUIDs |-> NoItem]
    /\ store_order = <<>>
    /\ subscription_store = <<>>
    /\ connections = [s \in AETitles |-> 0]
    /\ subscriptions = [t \in Targets |-> [present |-> FALSE, subs |-> {}]]
    /\ subscriber_to_workitems = [s \in AETitles |-> {}]
    /\ pending_notifications = [s \in AETitles |-> <<>>]
    /\ message_id = 1
    /\ sendq = <<>>
    /\ tasks = <<>>
    /\ created_clock = 0
    /\ sent = [s \in AETitles |-> <<>>]
    /\ resp = NoResp
    /\ suspension = [s \in AETitles |-> NoSuspension]
    /\ requests = [r \in RequestIds |-> NoRequest]

(***************************************************************************)
(* WorkItemService.update_workitem_status, up to its notification: the     *)
(* outcome is "rejected" (returns False) or the updated work item.         *)
(***************************************************************************)
status_update_allowed_without_lock(workitem, transaction_uid) ==
    LET current_status == workitem.ds.ProcedureStepState
    IN  /\ current_status # Absent
        /\ current_status \notin {COMPLETED, CANCELED}

status_update_allowed(workitem, transaction_uid) ==
    LET current_status == workitem.ds.ProcedureStepState
    IN  /\ current_status # Absent
        /\ ~(/\ current_status # SCHEDULED
             /\ (transaction_uid = None \/ workitem.transaction_uid # transaction_uid))
        /\ current_status \notin {COMPLETED, CANCELED}

\* The status change without "workitem.transaction_uid = transaction_uid".
status_updated_dropping_transaction(workitem, new_status, transaction_uid) ==
    update_procedure_step_status(workitem, new_status)

status_updated(workitem, new_status, transaction_uid) ==
    LET w == update_procedure_step_status(workitem, new_status)
    IN  IF new_status = IN_PROGRESS
        THEN [w EXCEPT !.transaction_uid = transaction_uid]
        ELSE w

\* The part of update_workitem_status after the checks: store the change and
\* notify.  When the notification raises, the change stays stored and the
\* handler answers 500; otherwise the handler merges merge_ds (the cancel
\* body; the state handler merges nothing) and answers okCode.
CommitStatus(uid, new_status, transaction_uid, op, okCode, arg, merge_ds) ==
    LET w == status_updated(local_store[uid], new_status, transaction_uid)
        stored == repo_update([local_store EXCEPT ![uid] = w], uid, w.ds)
    IN  IF report_raises(w)
        THEN /\ local_store' = stored
             /\ resp' = Response(op, uid, 500, arg, transaction_uid)
             /\ UNCHANGED <<subscriptions, sendq, message_id>>
        ELSE /\ message_id < MaxMsgId
             /\ \E o \in notify_status_change(subscriptions, sendq, message_id,
                                              subscription_store, stored, uid) :
                    /\ subscriptions' = o.subscriptions
                    /\ sendq' = o.sendq
                    /\ message_id' = o.message_id
             /\ local_store' = repo_update(stored, uid, merge_ds)
             /\ resp' = Response(op, uid, okCode, arg, transaction_uid)

(***************************************************************************)
(* POST /workitems (WorkItemsResource.on_post).  The handler does not      *)
(* await between the look-up and the insert, so two create requests never  *)
(* interleave there.                                                       *)
(***************************************************************************)
create_request_always_201(store, uid) == 201

\* "if self.workitem_service.workitem_repository.get_by_uid(workitem.uid)"
create_request_code(store, uid) ==
    IF get_by_uid(store, uid) # NoItem THEN 409 ELSE 201

CreateWorkItem(uid, ds) ==
    /\ IF create_request_code(local_store, uid) = 409
       THEN /\ resp' = Response("create", uid, 409, None, None)
            /\ UNCHANGED <<local_store, store_order, subscriptions, sendq, message_id>>
       ELSE LET stored == repo_create(local_store, uid, WorkItem(ds))
            IN  /\ local_store' = stored
                /\ store_order' = Append(store_order, uid)
                /\ IF report_raises(stored[uid])
                   THEN /\ resp' = Response("create", uid, 500, None, None)
                        /\ UNCHANGED <<subscriptions, sendq, message_id>>
                   ELSE /\ message_id + 1 < MaxMsgId
                        /\ \E o \in notify_creation(subscriptions, sendq, message_id,
                                                    subscription_store, stored, uid) :
                               /\ subscriptions' = o.subscriptions
                               /\ sendq' = o.sendq
                               /\ message_id' = o.message_id
                        /\ resp' = Response("create", uid, 201, None, None)
    /\ UNCHANGED <<subscription_store, connections, subscriber_to_workitems,
                   pending_notifications, tasks, created_clock, sent>>
    /\ suspension' = touch(uid)
    /\ UNCHANGED requests

(***************************************************************************)
(* PUT /workitems/{uid}/state (WorkItemStateResource.on_put).              *)
(* procedure_step_state and transaction_uid are None when the body does    *)
(* not carry them.                                                         *)
(***************************************************************************)
state_request_code(workitem, procedure_step_state, transaction_uid) ==
    IF procedure_step_state = None /\ transaction_uid = None THEN 400
    ELSE IF procedure_step_state \notin WorkItemStatus THEN 500
    ELSE IF workitem = NoItem THEN 404
    ELSE IF workitem.status \in {COMPLETED, CANCELED}
         THEN (IF procedure_step_state = workitem.status THEN 410 ELSE 409)
    ELSE IF workitem.status = IN_PROGRESS /\ procedure_step_state \notin {COMPLETED, CANCELED}
         THEN 409
    ELSE IF transaction_uid = None THEN 400
    ELSE IF procedure_step_state # IN_PROGRESS /\ transaction_uid # workitem.transaction_uid
         THEN 400
    ELSE 0

\* WorkItemStateResource.on_put after its one await (the read of the request
\* body): the checks, the service call and the answer run without suspension.
state_on_put(uid, procedure_step_state, transaction_uid) ==
    LET workitem == get_by_uid(local_store, uid)
        code == state_request_code(workitem, procedure_step_state, transaction_uid)
    IN  /\ IF code # 0
           THEN /\ resp' = Response("state", uid, code, procedure_step_state, transaction_uid)
                /\ UNCHANGED <<local_store, subscriptions, sendq, message_id>>
           ELSE IF ~status_update_allowed(workitem, transaction_uid)
           THEN /\ resp' = Response("state", uid, 400, procedure_step_state, transaction_uid)
                /\ UNCHANGED <<local_store, subscriptions, sendq, message_id>>
           ELSE CommitStatus(uid, procedure_step_state, transaction_uid,
                             "state", 200, procedure_step_state, EmptyDataset)
        /\ UNCHANGED <<store_order, subscription_store, connections, subscriber_to_workitems,
                       pending_notifications, tasks, created_clock, sent>>
        /\ suspension' = touch(uid)

\* The state handler with the change stored before the checks on the
\* transaction_uid: a request answered 400 for a stored item leaves the new
\* state in the record.
ChangeState_storing_before_checks(uid, procedure_step_state, transaction_uid) ==
    LET workitem == get_by_uid(local_store, uid)
        code == state_request_code(workitem, procedure_step_state, transaction_uid)
    IN  /\ IF code = 400 /\ workitem # NoItem /\ procedure_step_state \in WorkItemStatus
           THEN /\ resp' = Response("state", uid, code, procedure_step_state, transaction_uid)
                /\ local_store' = [local_store EXCEPT ![uid] =
                                      status_updated(workitem, procedure_step_state,
                                                     transaction_uid)]
                /\ UNCHANGED <<subscriptions, sendq, message_id>>
           ELSE IF code # 0
           THEN /\ resp' = Response("state", uid, code, procedure_step_state, transaction_uid)
                /\ UNCHANGED <<local_store, subscriptions, sendq, message_id>>
           ELSE IF ~status_update_allowed(workitem, transaction_uid)
           THEN /\ resp' = Response("state", uid, 400, procedure_step_state, transaction_uid)
                /\ UNCHANGED <<local_store, subscriptions, sendq, message_id>>
           ELSE CommitStatus(uid, procedure_step_state, transaction_uid,
                             "state", 200, procedure_step_state, EmptyDataset)
        /\ UNCHANGED <<store_order, subscription_store, connections, subscriber_to_workitems,
                       pending_notifications, tasks, created_clock, sent>>
        /\ suspension' = touch(uid)
        /\ UNCHANGED requests

\* A state request handled with no other state request in flight.
ChangeState(uid, procedure_step_state, transaction_uid) ==
    /\ state_on_put(uid, procedure_step_state, transaction_uid)
    /\ UNCHANGED requests

(***************************************************************************)
(* POST /workitems/{uid}/cancelrequest (WorkItemResource.on_post).         *)
(***************************************************************************)
CancelWorkItem(uid, cancel_ds) ==
    LET stored_workitem == get_by_uid(local_store, uid)
    IN  /\ IF stored_workitem = NoItem
           THEN /\ resp' = Response("cancel", uid, 404, cancel_ds.ProcedureStepState, None)
                /\ UNCHANGED <<local_store, subscriptions, sendq, message_id>>
           ELSE IF ~status_update_allowed(stored_workitem, None)
           THEN /\ resp' = Response("cancel", uid, 409, cancel_ds.ProcedureStepState, None)
                /\ UNCHANGED <<local_store, subscriptions, sendq, message_id>>
           ELSE CommitStatus(uid, CANCELED, None,
                             "cancel", 202, cancel_ds.ProcedureStepState, cancel_ds)
        /\ UNCHANGED <<store_order, subscription_store, connections, subscriber_to_workitems,
                       pending_notifications, tasks, created_clock, sent>>
        /\ suspension' = touch(uid)
        /\ UNCHANGED requests

(***************************************************************************)
(* PUT /workitems/{uid} (WorkItemResource.on_put).                         *)
(***************************************************************************)
strip_state_keeps_state(ds) == ds

\* "del workitem_update.ds["ProcedureStepState"]"
strip_state(ds) == [ds EXCEPT !.ProcedureStepState = Absent]

update_request_code(workitem, transaction_uid) ==
    IF workitem = NoItem THEN 404
    ELSE IF transaction_uid # None
         THEN (IF workitem.status # SCHEDULED /\ workitem.transaction_uid # transaction_uid
               THEN 400 ELSE 200)
    ELSE IF workitem.status = SCHEDULED THEN 200
    ELSE 400

UpdateWorkItem(uid, ds, transaction_uid) ==
    LET workitem_update == strip_state(ds)
        workitem == get_by_uid(local_store, uid)
        code == update_request_code(workitem, transaction_uid)
    IN  /\ resp' = Response("update", uid, code, ds.ProcedureStepState, transaction_uid)
        /\ local_store' = (IF code = 200 THEN repo_update(local_store, uid, workitem_update)
                           ELSE local_store)
        /\ UNCHANGED <<store_order, subscription_store, connections, subscriptions,
                       subscriber_to_workitems, pending_notifications, message_id, sendq,
                       tasks, created_clock, sent>>
        /\ suspension' = touch(uid)
        /\ UNCHANGED requests

(***************************************************************************)
(* The work-item handlers under every request on one work item, with no    *)
(* subscriber.  A create body carries ProcedureStepState SCHEDULED and may *)
(* lack InputReadinessState; a cancel body may carry any state; an update  *)
(* body carries a new start date and may carry a state.                    *)
(***************************************************************************)
RequestUIDs == {"W1"}

CreateBodies == {d \in Datasets : d.ProcedureStepState = SCHEDULED
                                  /\ d.ScheduledProcedureStepStartDateTime = "D1"}
CancelBodies == {d \in Datasets : d.InputReadinessState = Absent
                                  /\ d.ScheduledProcedureStepStartDateTime = Absent}
UpdateBodies == {d \in Datasets : d.InputReadinessState = Absent
                                  /\ d.ScheduledProcedureStepStartDateTime = "D2"
                                  /\ d.ProcedureStepState \in {Absent, COMPLETED}}

NextWI ==
    \/ \E uid \in RequestUIDs, ds \in CreateBodies : CreateWorkItem(uid, ds)
    \/ \E uid \in RequestUIDs, st \in WorkItemStatus \cup {None},
          t \in TransactionUIDs \cup {None} : ChangeState(uid, st, t)
    \/ \E uid \in RequestUIDs, ds \in CancelBodies : CancelWorkItem(uid, ds)
    \/ \E uid \in RequestUIDs, ds \in UpdateBodies,
          t \in TransactionUIDs \cup {None} : UpdateWorkItem(uid, ds, t)

SpecWI == Init /\ [][NextWI]_vars

(***************************************************************************)
(* Properties of the work-item state machine.                              *)
(***************************************************************************)
Stored(u) == local_store[u] # NoItem

Terminal == {COMPLETED, CANCELED}

\* The step is a request of kind op on work item u.
Answered(op, u) == resp'.op = op /\ resp'.uid = u

\* C1: once a work item's ProcedureStepState (the stored element, and likewise
\* the status field the handlers read) is COMPLETED or CANCELED, no state-change,
\* update or cancel request changes it.
C1_TerminalStateStays ==
    [][\A u \in WorkItemUIDs :
          Stored(u) =>
            /\ local_store[u].ds.ProcedureStepState \in Terminal
                  => local_store'[u].ds.ProcedureStepState = local_store[u].ds.ProcedureStepState
            /\ local_store[u].status \in Terminal
                  => local_store'[u].status = local_store[u].status]_vars

\* A CANCELED item has accepted an update whose body carried COMPLETED.
C1_Witness ==
    \E u \in WorkItemUIDs :
        /\ Stored(u)
        /\ local_store[u].status = CANCELED
        /\ local_store[u].ds.ProcedureStepState = CANCELED
        /\ resp = Response("update", u, 200, COMPLETED, local_store[u].transaction_uid)

C3_TransactionLock ==
    [][\A u \in WorkItemUIDs :
          (/\ Stored(u)
           /\ \/ local_store[u].status = IN_PROGRESS
              \/ local_store[u].ds.ProcedureStepState = IN_PROGRESS
           /\ \/ local_store'[u].status # local_store[u].status
              \/ local_store'[u].ds.ProcedureStepState # local_store[u].ds.ProcedureStepState)
            => /\ Answered("state", u) \/ Answered("cancel", u)
               /\ resp'.tuid # None
               /\ resp'.tuid = local_store[u].transaction_uid]_vars

\* An IN PROGRESS item was completed by a request carrying the stored
\* transaction_uid.
C3_Witness ==
    \E u \in WorkItemUIDs :
        /\ Stored(u)
        /\ local_store[u].status = COMPLETED
        /\ resp = Response("state", u, 200, COMPLETED, local_store[u].transaction_uid)

\* For a work item in terminal state X a state-change request asking for X is
\* answered 410 and one asking for another state 409, the record unchanged.
TerminalAnswers ==
    [][\A u \in WorkItemUIDs :
          (/\ Stored(u)
           /\ local_store[u].status \in Terminal
           /\ Answered("state", u)
           /\ resp'.arg \in WorkItemStatus)
            => /\ resp'.code = (IF resp'.arg = local_store[u].status THEN 410 ELSE 409)
               /\ local_store' = local_store]_vars

\* C4: for a work item in terminal state X a state-change request asking for X
\* is answered 410 and one asking for another state 409, the stored state
\* unchanged; and completing an IN PROGRESS item with the stored transaction_uid
\* is answered 200.
C4_TerminalAnswersAndCompletion ==
    [][\A u \in WorkItemUIDs :
          /\ (/\ Stored(u)
              /\ local_store[u].status \in Terminal
              /\ Answered("state", u)
              /\ resp'.arg \in WorkItemStatus)
               => /\ resp'.code = (IF resp'.arg = local_store[u].status THEN 410 ELSE 409)
                  /\ local_store' = local_store
          /\ (/\ Stored(u)
              /\ local_store[u].status = IN_PROGRESS
              /\ Answered("state", u)
              /\ resp'.arg = COMPLETED
              /\ resp'.tuid = local_store[u].transaction_uid)
               => resp'.code = 200]_vars

\* C5: a create request for a UID that is in the store is answered 409, leaves
\* the store unchanged and emits no event; no UID is inserted twice.
C5_DuplicateCreate ==
    /\ [][\A u \in WorkItemUIDs :
            (Stored(u) /\ Answered("create", u))
              => /\ resp'.code = 409
                 /\ UNCHANGED <<local_store, store_order, message_id, sendq, sent,
                                pending_notifications>>]_vars
    /\ [](\A i, j \in 1..Len(store_order) : i # j => store_order[i] # store_order[j])

\* A create request for a stored UID has been answered 409.
C5_Witness ==
    \E u \in WorkItemUIDs :
        /\ Stored(u)
        /\ resp = Response("create", u, 409, None, None)

(***************************************************************************)
(* NotificationService.queue_state_reports: the State reports queued for a *)
(* new subscription.  Building a report raises when the work item lacks    *)
(* ProcedureStepState or InputReadinessState; the reports appended before  *)
(* stay, and create_subscription swallows the exception.                   *)
(***************************************************************************)
RECURSIVE queue_reports(_, _, _, _)
queue_reports(queue, mid, lstore, uids) ==
    IF uids = <<>> THEN [queue |-> queue, message_id |-> mid]
    ELSE LET workitem == lstore[Head(uids)]
             m1 == get_next_message_id(mid)
             state_report == create_ups_state_report(m1, Head(uids),
                                                     workitem.ds.ProcedureStepState)
         IN  IF report_raises(workitem)
             THEN [queue |-> queue, message_id |-> mid]
             ELSE queue_reports(Append(queue, state_report), m1, lstore, Tail(uids))

\* The work items a new subscription gets a report for, in get_all order.
reported_workitems(lstore, order, subscription) ==
    IF subscription.workitem_uid \notin {GLOBAL_SUBSCRIPTION_UID, FILTERED_SUBSCRIPTION_UID}
    THEN (IF lstore[subscription.workitem_uid] # NoItem
          THEN <<subscription.workitem_uid>> ELSE <<>>)
    ELSE IF subscription.workitem_uid = GLOBAL_SUBSCRIPTION_UID /\ subscription.deletion_lock
    THEN order
    ELSE IF subscription.workitem_uid = FILTERED_SUBSCRIPTION_UID /\ subscription.filter # None
    THEN SelectSeq(order, LAMBDA u : match_query_to_dataset(subscription.filter, lstore[u].ds))
    ELSE <<>>

queue_state_reports(pending, mid, lstore, order, subscription) ==
    LET r == queue_reports(pending[subscription.ae_title], mid, lstore,
                           reported_workitems(lstore, order, subscription))
    IN  [pending_notifications |-> [pending EXCEPT ![subscription.ae_title] = r.queue],
         message_id |-> r.message_id]

(***************************************************************************)
(* SubscriptionService (domain/services/subscription_service.py).          *)
(* create_subscription: registry subscribe, repository create, snapshot.   *)
(* The result is the set of possible outcomes (the row's place in the      *)
(* store's iteration order is arbitrary).                                  *)
(***************************************************************************)
create_subscription(idx, s2w, sstore, pending, mid, lstore, order, subscription) ==
    LET q == queue_state_reports(pending, mid, lstore, order, subscription)
    IN  {[subscriptions |-> cm_subscribe_subscriptions(idx, subscription.ae_title,
                                                       subscription.workitem_uid),
          subscriber_to_workitems |-> cm_subscribe_reverse(s2w, subscription.ae_title,
                                                           subscription.workitem_uid),
          subscription_store |-> st,
          pending_notifications |-> q.pending_notifications,
          message_id |-> q.message_id] : st \in sub_repo_create(sstore, subscription)}

\* Building the snapshot of a new subscription raises: one of the work items
\* it reports lacks ProcedureStepState or InputReadinessState.
snapshot_raises(lstore, order, subscription) ==
    LET reported == reported_workitems(lstore, order, subscription)
    IN  \E i \in DOMAIN reported : report_raises(lstore[reported[i]])

\* create_subscription without its try/except: the exception of the snapshot
\* reaches the handler after the registry and the repository were written, and
\* the request is answered 500.
Subscribe_propagating_failure(workitem_uid, aetitle, deletion_lock, filter) ==
    LET subscription == Subscription(workitem_uid, aetitle, created_clock + 1,
                                     deletion_lock, filter, FALSE)
    IN  /\ created_clock < MaxCreatedAt
        /\ \E o \in create_subscription(subscriptions, subscriber_to_workitems,
                                        subscription_store, pending_notifications, message_id,
                                        local_store, store_order, subscription) :
              /\ o.message_id <= MaxMsgId
              /\ subscriptions' = o.subscriptions
              /\ subscriber_to_workitems' = o.subscriber_to_workitems
              /\ subscription_store' = o.subscription_store
              /\ pending_notifications' = o.pending_notifications
              /\ message_id' = o.message_id
        /\ created_clock' = created_clock + 1
        /\ resp' = Response("subscribe", workitem_uid,
                            IF snapshot_raises(local_store, store_order, subscription)
                            THEN 500 ELSE 201,
                            aetitle, None)
        /\ suspension' = IF workitem_uid = GLOBAL_SUBSCRIPTION_UID
                         THEN [suspension EXCEPT ![aetitle] = NoSuspension]
                         ELSE suspension
        /\ UNCHANGED <<local_store, store_order, connections, sendq, tasks, sent, requests>>

\* POST /workitems/{workitem_uid}/subscribers/{aetitle} (SubscriptionResource.on_post).
Subscribe(workitem_uid, aetitle, deletion_lock, filter) ==
    /\ created_clock < MaxCreatedAt
    /\ \E o \in create_subscription(subscriptions, subscriber_to_workitems, subscription_store,
                                    pending_notifications, message_id, local_store, store_order,
                                    Subscription(workitem_uid, aetitle, created_clock + 1,
                                                 deletion_lock, filter, FALSE)) :
          /\ o.message_id <= MaxMsgId
          /\ subscriptions' = o.subscriptions
          /\ subscriber_to_workitems' = o.subscriber_to_workitems
          /\ subscription_store' = o.subscription_store
          /\ pending_notifications' = o.pending_notifications
          /\ message_id' = o.message_id
    /\ created_clock' = created_clock + 1
    /\ resp' = Response("subscribe", workitem_uid, 201, aetitle, None)
    /\ suspension' = IF workitem_uid = GLOBAL_SUBSCRIPTION_UID
                     THEN [suspension EXCEPT ![aetitle] = NoSuspension]
                     ELSE suspension
    /\ UNCHANGED <<local_store, store_order, connections, sendq, tasks, sent, requests>>

\* DELETE /workitems/{workitem_uid}/subscribers/{aetitle} (SubscriptionResource.on_delete).
Unsubscribe(workitem_uid, aetitle) ==
    LET deleted == first_with_key(subscription_store, workitem_uid, aetitle) # 0
    IN  /\ subscriptions' = cm_unsubscribe_subscriptions(subscriptions, aetitle, workitem_uid)
        /\ subscriber_to_workitems' =
               cm_unsubscribe_reverse(subscriber_to_workitems, aetitle, workitem_uid)
        /\ subscription_store' = sub_repo_delete(subscription_store, workitem_uid, aetitle)
        /\ resp' = Response("unsubscribe", workitem_uid, IF deleted THEN 200 ELSE 404,
                            aetitle, None)
        /\ UNCHANGED <<local_store, store_order, connections, pending_notifications,
                       message_id, sendq, tasks, created_clock, sent, suspension, requests>>

\* "if GLOBAL_SUBSCRIPTION_UID in path ... elif FILTERED_SUBSCRIPTION_UID in path":
\* a substring test on the request path; the GLOBAL UID is a prefix of the
\* FILTERED UID.
uid_in_path(uid, path_uid) ==
    \/ uid = path_uid
    \/ uid = GLOBAL_SUBSCRIPTION_UID /\ path_uid = FILTERED_SUBSCRIPTION_UID

suspend_target(path_uid) ==
    IF uid_in_path(GLOBAL_SUBSCRIPTION_UID, path_uid) THEN GLOBAL_SUBSCRIPTION_UID
    ELSE IF uid_in_path(FILTERED_SUBSCRIPTION_UID, path_uid) THEN FILTERED_SUBSCRIPTION_UID
    ELSE None

\* POST /workitems/{GLOBAL or FILTERED}/subscribers/{aetitle}/suspend
\* (SubscriptionSuspendResource.on_post and SubscriptionService.suspend).
Suspend(path_uid, aetitle) ==
    LET workitem_uid == suspend_target(path_uid)
        i == first_with_key(subscription_store, workitem_uid, aetitle)
    IN  IF i = 0
        THEN /\ resp' = Response("suspend", path_uid, 404, aetitle, None)
             /\ UNCHANGED <<local_store, store_order, subscription_store, connections,
                            subscriptions, subscriber_to_workitems, pending_notifications,
                            message_id, sendq, tasks, created_clock, sent, suspension, requests>>
        ELSE LET subscription_to_suspend == subscription_store[i]
                 suspended_subscription ==
                     Subscription(subscription_to_suspend.workitem_uid,
                                  subscription_to_suspend.ae_title, created_clock + 1,
                                  subscription_to_suspend.deletion_lock,
                                  subscription_to_suspend.filter, TRUE)
             IN  /\ created_clock < MaxCreatedAt
                 /\ \E o \in create_subscription(
                                cm_unsubscribe_subscriptions(subscriptions, aetitle, workitem_uid),
                                cm_unsubscribe_reverse(subscriber_to_workitems, aetitle,
                                                       workitem_uid),
                                sub_repo_delete(subscription_store, workitem_uid, aetitle),
                                pending_notifications, message_id, local_store, store_order,
                                suspended_subscription) :
                       /\ o.message_id <= MaxMsgId
                       /\ subscriptions' = o.subscriptions
                       /\ subscriber_to_workitems' = o.subscriber_to_workitems
                       /\ subscription_store' = o.subscription_store
                       /\ pending_notifications' = o.pending_notifications
                       /\ message_id' = o.message_id
                       /\ suspension' =
                              IF workitem_uid = GLOBAL_SUBSCRIPTION_UID
                                 /\ ~suspension[aetitle].active
                              THEN [suspension EXCEPT ![aetitle] =
                                       [active |-> TRUE, since |-> o.message_id, touched |-> {}]]
                              ELSE suspension
                 /\ created_clock' = created_clock + 1
                 /\ resp' = Response("suspend", path_uid, 200, aetitle, None)
                 /\ UNCHANGED <<local_store, store_order, connections, sendq, tasks, sent, requests>>

(***************************************************************************)
(* The subscription handlers under every request of one subscriber for the *)
(* GLOBAL target, the FILTERED target and one work item.                   *)
(***************************************************************************)
SubTargets == {GLOBAL_SUBSCRIPTION_UID, FILTERED_SUBSCRIPTION_UID, "W1"}

SubAETitles == {"AE1"}

\* A filter comes with the FILTERED target only.
SubscribeRequests ==
    {r \in [workitem_uid : SubTargets, deletion_lock : {FALSE}, filter : {None, SCHEDULED}] :
        r.filter # None <=> r.workitem_uid = FILTERED_SUBSCRIPTION_UID}

SuspendPaths == {GLOBAL_SUBSCRIPTION_UID, FILTERED_SUBSCRIPTION_UID}

NextSub ==
    \/ \E r \in SubscribeRequests, a \in SubAETitles :
          Subscribe(r.workitem_uid, a, r.deletion_lock, r.filter)
    \/ \E t \in SubTargets, a \in SubAETitles : Unsubscribe(t, a)
    \/ \E path_uid \in SuspendPaths, a \in SubAETitles : Suspend(path_uid, a)

SpecSub == Init /\ [][NextSub]_vars

rows_with_key(t, a) == get_by_workitem_and_ae_title(subscription_store, t, a)

\* C6: the Subscription Store holds at most one subscription per
\* (target, subscriber) pair after any subscribe, suspend and unsubscribe
\* requests; two creates with identical parameters leave exactly one.
C6_OnePerKey ==
    \A t \in Targets, a \in AETitles : Len(rows_with_key(t, a)) <= 1

\* C7: creating a subscription for a (target, subscriber) key that has a
\* suspended row removes the suspended row; afterwards the store holds exactly
\* one row for the key and that row is not suspended.
C7_SuspendedReplaced ==
    [][\A t \in Targets, a \in AETitles :
          (/\ resp'.op = "subscribe" /\ resp'.uid = t /\ resp'.arg = a
           /\ created_clock' # created_clock
           /\ \E i \in 1..Len(rows_with_key(t, a)) : rows_with_key(t, a)[i].suspended)
            => LET rows == get_by_workitem_and_ae_title(subscription_store', t, a)
               IN  Len(rows) = 1 /\ ~rows[1].suspended]_vars

(***************************************************************************)
(* The push channel (websocket/connection_manager.py and                   *)
(* NotificationService.on_connection_established).  A channel is the       *)
(* index of its handle_connection task in tasks.  A task record holds the  *)
(* position of the task and, as history, the message id and the queue of   *)
(* its subscriber at the time of the connect.                              *)
(***************************************************************************)
Frame(message, channel) == [message |-> message, channel |-> channel]

\* A callback registered before on_connection_established: whether it raises
\* and whether the callable has a __name__ (functions and bound methods have
\* one, functools.partial objects and other callable objects have none).
Callback(raises, named) == [registered |-> TRUE, raises |-> raises, named |-> named]

\* Only on_connection_established is registered.
NoCallback == [registered |-> FALSE, raises |-> FALSE, named |-> TRUE]

\* broken: the peer is gone and the task has not yet been resumed to see it.
\* callback: history, the callback the channel was accepted with.
Task(subscriber_id, pc, idx, live, lst, connected_at, queued, broken, callback) ==
    [subscriber_id |-> subscriber_id, pc |-> pc, idx |-> idx, live |-> live, lst |-> lst,
     connected_at |-> connected_at, queued |-> queued, broken |-> broken,
     callback |-> callback]

\* "await websocket.send(message)" raises on a channel whose peer is gone or
\* whose task has ended.
write_fails(channel) ==
    /\ channel \in DOMAIN tasks
    /\ (tasks[channel].broken \/ tasks[channel].pc = "closed")

\* The value ConnectionManager.send_message returns.
send_result(conns, subscriber_id) ==
    conns[subscriber_id] # 0 /\ ~write_fails(conns[subscriber_id])

\* ConnectionManager.send_message: the frame goes to the channel registered
\* when the coroutine runs; without one, or when the write raises, the message
\* is dropped (returns False) and the registry is left as it is.
send_message(frames, conns, subscriber_id, message) ==
    IF ~send_result(conns, subscriber_id)
    THEN frames
    ELSE [frames EXCEPT ![subscriber_id] = Append(@, Frame(message, conns[subscriber_id]))]

\* "for message in self.pending_notifications[subscriber_id]" iterates the list
\* object it found at the start: the subscriber's queue, until another drain
\* replaces that entry of the dictionary.
drained_list(t) == IF t.live THEN pending_notifications[t.subscriber_id] ELSE t.lst

\* handle_connection up to its first suspension, with callback registered
\* before on_connection_established: the channel is registered, then the
\* callbacks run, each inside try/except.  Both the debug line after a call and
\* the error line of the except clause format callback.__name__: for a callable
\* without one the AttributeError leaves handle_connection before the other
\* callbacks and before the try/finally of the read loop, so the entry stays and
\* the task has ended.  Otherwise the connect callback sends the first queued
\* event, or, with an empty queue, the task goes on to read.
handle_connection(subscriber_id, callback) ==
    LET c == Len(tasks) + 1
        conns == [connections EXCEPT ![subscriber_id] = c]
        queued == pending_notifications[subscriber_id]
    IN  /\ Len(tasks) < MaxChannels
        /\ connections' = conns
        /\ IF callback.registered /\ ~callback.named
           THEN /\ tasks' = Append(tasks, Task(subscriber_id, "closed", 1, FALSE, <<>>,
                                               message_id, queued, FALSE, callback))
                /\ sent' = sent
           ELSE IF queued = <<>>
           THEN /\ tasks' = Append(tasks, Task(subscriber_id, "read", 1, FALSE, <<>>,
                                               message_id, queued, FALSE, callback))
                /\ sent' = sent
           ELSE /\ tasks' = Append(tasks, Task(subscriber_id, "drain", 2, TRUE, <<>>,
                                               message_id, queued, FALSE, callback))
                /\ sent' = send_message(sent, conns, subscriber_id, queued[1])
        /\ UNCHANGED <<local_store, store_order, subscription_store, subscriptions,
                       subscriber_to_workitems, pending_notifications, message_id, sendq,
                       created_clock, resp, suspension, requests>>

\* The application registers on_connection_established alone.
Connect(subscriber_id) == handle_connection(subscriber_id, NoCallback)

\* The connect callback with a loop that ends at the first send that fails:
\* the rest of the list is not sent and the queue is not emptied.
DrainStep_stopping_on_failure(c) ==
    LET t == tasks[c]
        s == t.subscriber_id
        lst == drained_list(t)
    IN  /\ t.pc = "drain"
        /\ IF t.idx <= Len(lst) /\ ~send_result(connections, s)
           THEN /\ tasks' = [tasks EXCEPT ![c] = [t EXCEPT !.pc = "read", !.live = FALSE,
                                                          !.lst = <<>>]]
                /\ UNCHANGED <<pending_notifications, sent>>
           ELSE IF t.idx <= Len(lst)
           THEN /\ sent' = send_message(sent, connections, s, lst[t.idx])
                /\ tasks' = [tasks EXCEPT ![c].idx = @ + 1]
                /\ UNCHANGED pending_notifications
           ELSE /\ pending_notifications' = [pending_notifications EXCEPT ![s] = <<>>]
                /\ tasks' = [i \in DOMAIN tasks |->
                                IF i = c
                                THEN [t EXCEPT !.pc = "read", !.live = FALSE, !.lst = <<>>]
                                ELSE IF tasks[i].subscriber_id = s /\ tasks[i].pc = "drain"
                                        /\ tasks[i].live
                                THEN [tasks[i] EXCEPT !.live = FALSE,
                                                     !.lst = pending_notifications[s]]
                                ELSE tasks[i]]
                /\ sent' = sent
        /\ UNCHANGED <<local_store, store_order, subscription_store, connections, subscriptions,
                       subscriber_to_workitems, message_id, sendq, created_clock, resp,
                       suspension, requests>>

\* on_connection_established resumed after a send: the next queued event is
\* sent, or, past the end of the list, the subscriber's queue is replaced by an
\* empty list and the task goes on to read.
DrainStep(c) ==
    LET t == tasks[c]
        s == t.subscriber_id
        lst == drained_list(t)
    IN  /\ t.pc = "drain"
        /\ IF t.idx <= Len(lst)
           THEN /\ sent' = send_message(sent, connections, s, lst[t.idx])
                /\ tasks' = [tasks EXCEPT ![c].idx = @ + 1]
                /\ UNCHANGED pending_notifications
           ELSE /\ pending_notifications' = [pending_notifications EXCEPT ![s] = <<>>]
                /\ tasks' = [i \in DOMAIN tasks |->
                                IF i = c
                                THEN [t EXCEPT !.pc = "read", !.live = FALSE, !.lst = <<>>]
                                ELSE IF tasks[i].subscriber_id = s /\ tasks[i].pc = "drain"
                                        /\ tasks[i].live
                                THEN [tasks[i] EXCEPT !.live = FALSE,
                                                     !.lst = pending_notifications[s]]
                                ELSE tasks[i]]
                /\ sent' = sent
        /\ UNCHANGED <<local_store, store_order, subscription_store, connections, subscriptions,
                       subscriber_to_workitems, message_id, sendq, created_clock, resp,
                       suspension, requests>>

\* A send_message coroutine scheduled by _send_notification runs.
RunSend ==
    /\ sendq # <<>>
    /\ sent' = send_message(sent, connections, Head(sendq).subscriber_id, Head(sendq).message)
    /\ sendq' = Tail(sendq)
    /\ UNCHANGED <<local_store, store_order, subscription_store, connections, subscriptions,
                   subscriber_to_workitems, pending_notifications, message_id, tasks,
                   created_clock, resp, suspension, requests>>

\* ConnectionManager._remove_connection in place of the finally clause: the
\* subscriber's registry subscriptions are removed with the entry.
Close_removing_subscriptions(c) ==
    LET s == tasks[c].subscriber_id
    IN  /\ tasks[c].pc = "read"
        /\ connections' = [connections EXCEPT ![s] = 0]
        /\ subscriptions' = [t \in Targets |->
                                [subscriptions[t] EXCEPT !.subs = @ \ {s}]]
        /\ subscriber_to_workitems' = [subscriber_to_workitems EXCEPT ![s] = {}]
        /\ tasks' = [tasks EXCEPT ![c].pc = "closed"]
        /\ UNCHANGED <<local_store, store_order, subscription_store,
                       pending_notifications, message_id, sendq, created_clock, sent, resp,
                       suspension, requests>>

\* The peer closes the channel: the read loop ends and the finally clause
\* deletes the subscriber's entry, whichever channel it holds.
Close(c) ==
    /\ tasks[c].pc = "read"
    /\ connections' = [connections EXCEPT ![tasks[c].subscriber_id] = 0]
    /\ tasks' = [tasks EXCEPT ![c].pc = "closed"]
    /\ UNCHANGED <<local_store, store_order, subscription_store, subscriptions,
                   subscriber_to_workitems, pending_notifications, message_id, sendq,
                   created_clock, sent, resp, suspension, requests>>

(***************************************************************************)
(* Suspension: one subscriber with GLOBAL subscriptions (with and without  *)
(* deletion lock), their suspension, the subscriber's first channel, and   *)
(* create requests.                                                        *)
(***************************************************************************)
NotifyAETitles == {"AE1"}

NotifyBodies == {d \in CreateBodies : d.InputReadinessState = "READY"}

NextSuspend ==
    \/ \E a \in NotifyAETitles, deletion_lock \in BOOLEAN :
          Subscribe(GLOBAL_SUBSCRIPTION_UID, a, deletion_lock, None)
    \/ \E a \in NotifyAETitles : Suspend(GLOBAL_SUBSCRIPTION_UID, a)
    \/ \E uid \in RequestUIDs, ds \in NotifyBodies : CreateWorkItem(uid, ds)
    \/ \E a \in NotifyAETitles : tasks = <<>> /\ Connect(a)
    \/ \E c \in DOMAIN tasks : DrainStep(c)
    \/ RunSend

SpecSuspend == Init /\ [][NextSuspend]_vars

(***************************************************************************)
(* Channel: one subscriber with GLOBAL subscriptions with deletion lock,   *)
(* its first channel from connect to close, and requests that create a     *)
(* work item and start it.                                                 *)
(***************************************************************************)
NextChannel ==
    \/ \E a \in NotifyAETitles : Subscribe(GLOBAL_SUBSCRIPTION_UID, a, TRUE, None)
    \/ \E uid \in RequestUIDs, ds \in NotifyBodies : CreateWorkItem(uid, ds)
    \/ \E uid \in RequestUIDs : ChangeState(uid, IN_PROGRESS, "T1")
    \/ \E a \in NotifyAETitles : tasks = <<>> /\ Connect(a)
    \/ \E c \in DOMAIN tasks : DrainStep(c)
    \/ RunSend
    \/ \E c \in DOMAIN tasks : Close(c)

SpecChannel == Init /\ [][NextChannel]_vars

\* The frames a step writes to a subscriber's channels.
delivered(s) ==
    IF Len(sent'[s]) > Len(sent[s]) THEN {sent'[s][Len(sent'[s])]} ELSE {}

\* While a subscriber's GLOBAL subscription is suspended, no frame of an event
\* issued since the suspension, for a work item created or changed since, is
\* written to the subscriber.
C8_Suspended ==
    \A s \in AETitles :
        (suspension[s].active /\ suspension'[s].active)
           => \A f \in delivered(s) :
                 ~(/\ f.message.AffectedSOPInstanceUID \in suspension[s].touched
                   /\ f.message.MessageID > suspension[s].since)

\* With a GLOBAL subscription that is not suspended, the creation of a work
\* item schedules the frame of its State report for the subscriber.
C8_Resumed ==
    \A s \in AETitles, u \in WorkItemUIDs :
        (/\ ~suspension[s].active
         /\ rows_with_key(GLOBAL_SUBSCRIPTION_UID, s) # <<>>
         /\ local_store[u] = NoItem /\ local_store'[u] # NoItem)
           => \E i \in DOMAIN sendq' :
                 /\ sendq'[i].subscriber_id = s
                 /\ sendq'[i].message.AffectedSOPInstanceUID = u
                 /\ sendq'[i].message.EventTypeID = UPSStateReport

C9_OfflineEventQueued ==
    [][\A s \in AETitles :
          (/\ sendq # <<>> /\ sendq' = Tail(sendq)
           /\ Head(sendq).subscriber_id = s
           /\ connections[s] = 0)
            => \E i \in DOMAIN pending_notifications'[s] :
                  pending_notifications'[s][i] = Head(sendq).message]_vars

NextConnect ==
    \/ \E a \in NotifyAETitles, deletion_lock \in BOOLEAN :
          subscription_store = <<>> /\ Subscribe(GLOBAL_SUBSCRIPTION_UID, a, deletion_lock, None)
    \/ \E uid \in RequestUIDs, ds \in NotifyBodies : CreateWorkItem(uid, ds)
    \/ \E uid \in RequestUIDs : ChangeState(uid, IN_PROGRESS, "T1")
    \/ \E a \in NotifyAETitles : Connect(a)
    \/ \E c \in DOMAIN tasks : DrainStep(c)
    \/ RunSend
    \/ \E c \in DOMAIN tasks : Close(c)

SpecConnect == Init /\ [][NextConnect]_vars

Closes(c) == c \in DOMAIN tasks /\ tasks[c].pc = "read" /\ tasks'[c].pc = "closed"

\* C19: the registry holds at most one channel per subscriber: a second
\* channel accepted while the first is open replaces the entry, and the entry
\* keeps referring to the second channel when the first one closes.
C19_EntryKeepsSecondChannel ==
    [][/\ \A s \in AETitles :
             Len(tasks') > Len(tasks) /\ tasks'[Len(tasks')].subscriber_id = s
                => connections'[s] = Len(tasks')
       /\ \A c \in 1..MaxChannels :
             (Closes(c) /\ connections[tasks[c].subscriber_id] # c)
                => connections'[tasks[c].subscriber_id] = connections[tasks[c].subscriber_id]
      ]_vars

\* C20: when a subscriber's channel closes, only the subscriber's connection
\* entry is removed: the subscription rows, both registry indices and the
\* pending queues are unchanged; a send scheduled for a subscriber that has a
\* channel (again) is written to that channel, without a new subscription.
C20_CloseRemovesEntryOnly ==
    [][/\ \A c \in 1..MaxChannels :
             Closes(c) =>
                /\ connections' = [connections EXCEPT ![tasks[c].subscriber_id] = 0]
                /\ UNCHANGED <<subscription_store, subscriptions, subscriber_to_workitems,
                               pending_notifications>>
       /\ (sendq # <<>> /\ sendq' = Tail(sendq)
           /\ connections[Head(sendq).subscriber_id] # 0)
             => sent'[Head(sendq).subscriber_id] =
                   Append(sent[Head(sendq).subscriber_id],
                          Frame(Head(sendq).message, connections[Head(sendq).subscriber_id]))
      ]_vars

\* A first channel was closed, and the second channel carries a frame of an
\* event issued after it was opened, for the subscription made before both.
C20_Witness ==
    /\ Len(tasks) = 2 /\ tasks[1].pc = "closed" /\ tasks[1].subscriber_id = "AE1"
    /\ tasks[2].subscriber_id = "AE1"
    /\ Len(subscription_store) = 1 /\ subscription_store[1].created_at = 1
    /\ \E i \in DOMAIN sent["AE1"] :
          /\ sent["AE1"][i].channel = 2
          /\ sent["AE1"][i].message.MessageID > tasks[2].connected_at

(***************************************************************************)
(* Routing: subscriber AE1 subscribes to and unsubscribes from a work item *)
(* of its own, the GLOBAL and the FILTERED target (one subscription per    *)
(* target at a time, no deletion lock), subscriber AE2 subscribes to the   *)
(* work item of the requests, and requests create that item and start it.  *)
(***************************************************************************)
RouteTargets == {"W2", GLOBAL_SUBSCRIPTION_UID, FILTERED_SUBSCRIPTION_UID}

RouteRequests ==
    {r \in [workitem_uid : RouteTargets, deletion_lock : {FALSE}, filter : {None, SCHEDULED}] :
        r.filter # None <=> r.workitem_uid = FILTERED_SUBSCRIPTION_UID}

NextRoute ==
    \/ \E r \in RouteRequests :
          /\ rows_with_key(r.workitem_uid, "AE1") = <<>>
          /\ Subscribe(r.workitem_uid, "AE1", r.deletion_lock, r.filter)
    \/ \E uid \in RequestUIDs :
          rows_with_key(uid, "AE2") = <<>> /\ Subscribe(uid, "AE2", FALSE, None)
    \/ \E t \in RouteTargets : Unsubscribe(t, "AE1")
    \/ \E uid \in RequestUIDs, ds \in NotifyBodies : CreateWorkItem(uid, ds)
    \/ \E uid \in RequestUIDs : ChangeState(uid, IN_PROGRESS, "T1")

SpecRoute == Init /\ [][NextRoute]_vars

\* The events for which a step schedules a send to subscriber s.
scheduled(s) ==
    {sendq'[i].message : i \in {j \in DOMAIN sendq' : j > Len(sendq)
                                                     /\ sendq'[j].subscriber_id = s}}

\* Every subscription of s has target t, and s has one.
only_target(s, t) ==
    /\ get_by_ae_title(subscription_store, s) # <<>>
    /\ \A i \in DOMAIN subscription_store :
          subscription_store[i].ae_title = s => subscription_store[i].workitem_uid = t

\* Some filter of s matches the record of work item u after the step.
filter_matches(s, u) ==
    \E i \in DOMAIN subscription_store :
        /\ subscription_store[i].ae_title = s
        /\ subscription_store[i].filter # None
        /\ local_store'[u] # NoItem
        /\ match_query_to_dataset(subscription_store[i].filter, local_store'[u].ds)

\* C12: a subscriber whose only subscription is a FILTERED one is sent an
\* event for a work item only if the item's record at the time of the fan-out
\* matches its filter, whatever other subscriptions exist or existed; with the
\* filter ProcedureStepState = SCHEDULED it is sent the two creation events.
C12_FilteredOnlyMatching ==
    [][\A s \in AETitles :
          only_target(s, FILTERED_SUBSCRIPTION_UID) =>
             /\ \A m \in scheduled(s) : filter_matches(s, m.AffectedSOPInstanceUID)
             /\ \A u \in WorkItemUIDs :
                   (local_store[u] = NoItem /\ local_store'[u] # NoItem /\ filter_matches(s, u))
                      => {m.EventTypeID : m \in {x \in scheduled(s) :
                                                    x.AffectedSOPInstanceUID = u}}
                            = {UPSStateReport, UPSAssigned}]_vars

scheduled_seq(s) ==
    SelectSeq(SubSeq(sendq', Len(sendq) + 1, Len(sendq')), LAMBDA x : x.subscriber_id = s)

\* Subscriber s has a GLOBAL subscription that is not suspended.
has_active_global(s) ==
    \E i \in DOMAIN subscription_store :
        /\ subscription_store[i].ae_title = s
        /\ subscription_store[i].workitem_uid = GLOBAL_SUBSCRIPTION_UID
        /\ ~subscription_store[i].suspended

\* C15: when a work item W is created while subscriber S has a non-suspended
\* GLOBAL subscription and an open channel, S is sent exactly two frames for
\* the creation: a State event and an Assigned event, both for W.
C15_TwoCreationFrames ==
    [][\A s \in AETitles, W \in WorkItemUIDs :
          (/\ local_store[W] = NoItem /\ local_store'[W] # NoItem
           /\ has_active_global(s)
           /\ connections[s] # 0)
            => /\ Len(scheduled_seq(s)) = 2
               /\ scheduled_seq(s)[1].message.AffectedSOPInstanceUID = W
               /\ scheduled_seq(s)[1].message.EventTypeID = UPSStateReport
               /\ scheduled_seq(s)[2].message.AffectedSOPInstanceUID = W
               /\ scheduled_seq(s)[2].message.EventTypeID = UPSAssigned]_vars

(***************************************************************************)
(* SpecConnect with the event loop's scheduling: a coroutine that is ready *)
(* to run (a scheduled send, a connect callback resumed after its send) is *)
(* run eventually.  Requests and the peer's connects and closes are free.  *)
(***************************************************************************)
SpecConnectFair ==
    /\ SpecConnect
    /\ WF_vars(RunSend)
    /\ \A c \in 1..MaxChannels : WF_vars(c \in DOMAIN tasks /\ DrainStep(c))

\* The State reports a subscription's snapshot can queue.
InitialReports ==
    {create_ups_state_report(mid, uid, st) :
        mid \in 1..MaxMsgId, uid \in RequestUIDs, st \in {SCHEDULED, IN_PROGRESS}}

in_queue(s, m) ==
    \E i \in DOMAIN pending_notifications[s] : pending_notifications[s][i] = m

was_sent(s, m) == \E i \in DOMAIN sent[s] : sent[s][i].message = m

update_applied(u) == local_store'[u].ds.ScheduledProcedureStepStartDateTime = "D2"

\* The rule of C17 for an update request on a stored item u whose state is st.
update_rule(u, st) ==
    LET t == resp'.tuid
        matches == t # None /\ t = local_store[u].transaction_uid
    IN  IF st = SCHEDULED
        THEN resp'.code = 200 /\ update_applied(u)
        ELSE /\ local_store'[u] # local_store[u] => matches
             /\ ~matches => resp'.code = 400 /\ local_store'[u] = local_store[u]

\* The rule with the status field the handler reads as the item's state.
UpdateRuleByStatus ==
    [][\A u \in WorkItemUIDs :
          (Stored(u) /\ Answered("update", u)) => update_rule(u, local_store[u].status)]_vars

\* C17: a non-state update of a work item whose state is not SCHEDULED is
\* applied only when the request carries the stored transaction_uid; with a
\* missing or different one the response is 400 and the record is unchanged;
\* in state SCHEDULED the update is applied with or without a transaction_uid.
C17_UpdateNeedsTransaction ==
    [][\A u \in WorkItemUIDs :
          (Stored(u) /\ Answered("update", u))
             => update_rule(u, local_store[u].ds.ProcedureStepState)]_vars

\* C18: a cancel request for a stored work item in state SCHEDULED is answered
\* 202 and afterwards the item's ProcedureStepState is CANCELED, for every
\* request body; a cancel request for an absent work item is answered 404.
C18_CancelScheduled ==
    [][\A u \in WorkItemUIDs :
          Answered("cancel", u) =>
             IF Stored(u)
             THEN local_store[u].ds.ProcedureStepState = SCHEDULED
                     => /\ resp'.code = 202
                        /\ local_store'[u].ds.ProcedureStepState = CANCELED
             ELSE resp'.code = 404 /\ local_store' = local_store]_vars

(***************************************************************************)
(* Transport failures: one subscriber with a subscription to the work item *)
(* of the requests and a GLOBAL subscription with deletion lock (one of    *)
(* each at most), create requests, and the subscriber's channels, whose    *)
(* peer may go away before the server's read loop is resumed to see it.    *)
(***************************************************************************)
\* The peer of channel c goes away: from now on a write to c raises; the task
\* of c sees it when its read loop is resumed (Close).
Break(c) ==
    /\ tasks[c].pc \in {"read", "drain"}
    /\ ~tasks[c].broken
    /\ tasks' = [tasks EXCEPT ![c].broken = TRUE]
    /\ UNCHANGED <<local_store, store_order, subscription_store, connections, subscriptions,
                   subscriber_to_workitems, pending_notifications, message_id, sendq,
                   created_clock, sent, resp, suspension, requests>>

TransportTargets == RequestUIDs \cup {GLOBAL_SUBSCRIPTION_UID}

NextTransport ==
    \/ \E t \in TransportTargets, a \in NotifyAETitles :
          rows_with_key(t, a) = <<>> /\ Subscribe(t, a, TRUE, None)
    \/ \E uid \in RequestUIDs, ds \in NotifyBodies : CreateWorkItem(uid, ds)
    \/ \E a \in NotifyAETitles : Connect(a)
    \/ \E c \in DOMAIN tasks : DrainStep(c)
    \/ RunSend
    \/ \E c \in DOMAIN tasks : Break(c)
    \/ \E c \in DOMAIN tasks : Close(c)

SpecTransport == Init /\ [][NextTransport]_vars

AcceptCallbacks ==
    {NoCallback} \cup {Callback(raises, named) : raises \in BOOLEAN, named \in BOOLEAN}

NextAccept ==
    \/ \E a \in NotifyAETitles, deletion_lock \in BOOLEAN :
          subscription_store = <<>> /\ Subscribe(GLOBAL_SUBSCRIPTION_UID, a, deletion_lock, None)
    \/ \E uid \in RequestUIDs, ds \in NotifyBodies : CreateWorkItem(uid, ds)
    \/ \E a \in NotifyAETitles, callback \in AcceptCallbacks : handle_connection(a, callback)
    \/ \E c \in DOMAIN tasks : DrainStep(c)
    \/ RunSend
    \/ \E c \in DOMAIN tasks : Close(c)

SpecAccept == Init /\ [][NextAccept]_vars

\* The step accepts a channel with a registered callback that raises.
accepts_with_raising(c) ==
    /\ c = Len(tasks) + 1 /\ Len(tasks') = c
    /\ tasks'[c].callback.registered /\ tasks'[c].callback.raises

\* After the step the accepted channel c is registered and its task goes on:
\* on_connection_established was called (it has sent the first queued event
\* when there was one) and the task is in the drain or in the read loop.
accept_goes_on(c) ==
    LET s == tasks'[c].subscriber_id
    IN  /\ connections'[s] = c
        /\ IF pending_notifications[s] # <<>>
           THEN /\ tasks'[c].pc = "drain"
                /\ sent'[s] = Append(sent[s], Frame(pending_notifications[s][1], c))
           ELSE tasks'[c].pc = "read"

\* A channel accepted with a raising callback ends only by the end of its
\* read loop, which removes the entry.
served_until_closed(c) ==
    (/\ tasks[c].callback.registered /\ tasks[c].callback.raises
     /\ tasks[c].pc = "closed")
       => connections[tasks[c].subscriber_id] # c

\* The containment of C22 for callbacks that have a __name__.
NamedCallbackContained ==
    /\ [][\A c \in 1..MaxChannels :
            (accepts_with_raising(c) /\ tasks'[c].callback.named) => accept_goes_on(c)]_vars
    /\ [](\A c \in DOMAIN tasks : tasks[c].callback.named => served_until_closed(c))

\* C22: when a registered callback raises during the accept of a channel, the
\* remaining callback (on_connection_established) is still called, the
\* exception does not leave accept, and the channel stays registered and is
\* served until it closes.
C22_CallbackFailureContained ==
    /\ [][\A c \in 1..MaxChannels : accepts_with_raising(c) => accept_goes_on(c)]_vars
    /\ [](\A c \in DOMAIN tasks : served_until_closed(c))

\* The list has no event twice.
no_repeat(lst) == \A i, j \in DOMAIN lst : i # j => lst[i] # lst[j]

\* C23: the drain of a connect attempts the events of the subscriber's queue
\* one after the other in queue order (a frame is written when the send
\* succeeds, and the drain goes on to the next event when it does not), it ends
\* only past the last event, with every event that was queued at the connect
\* attempted once, and its last step leaves the subscriber's queue empty.
C23_DrainAttemptsAll ==
    [][\A c \in 1..MaxChannels :
          (c \in DOMAIN tasks /\ tasks[c].pc = "drain") =>
             LET t == tasks[c]
                 s == t.subscriber_id
                 lst == drained_list(t)
             IN  /\ tasks'[c].idx # t.idx =>
                       /\ t.idx <= Len(lst)
                       /\ tasks'[c].idx = t.idx + 1
                       /\ tasks'[c].pc = "drain"
                       /\ sent'[s] = IF send_result(connections, s)
                                     THEN Append(sent[s], Frame(lst[t.idx], connections[s]))
                                     ELSE sent[s]
                 /\ tasks'[c].pc # "drain" =>
                       /\ t.idx = Len(lst) + 1
                       /\ SubSeq(lst, 1, Len(t.queued)) = t.queued
                       /\ no_repeat(lst)
                       /\ pending_notifications'[s] = <<>>]_vars

\* A drain of two queued events has ended with the queue empty: its first
\* event was written, then the peer went away and the write of the second
\* failed.
C23_Witness ==
    \E c \in DOMAIN tasks :
        LET t == tasks[c]
            s == t.subscriber_id
        IN  /\ t.pc = "read" /\ t.broken
            /\ Len(t.queued) = 2
            /\ pending_notifications[s] = <<>>
            /\ \E i \in DOMAIN sent[s] : sent[s][i] = Frame(t.queued[1], c)
            /\ \A i \in DOMAIN sent[s] : sent[s][i].message # t.queued[2]

(***************************************************************************)
(* Snapshots: one subscriber subscribes to a work item, to the GLOBAL      *)
(* target (with and without deletion lock) and to the FILTERED target,     *)
(* while requests create two work items, with or without                   *)
(* InputReadinessState in the body, and start them.                        *)
(***************************************************************************)
SnapshotRequests ==
    {r \in [workitem_uid : SubTargets, deletion_lock : BOOLEAN, filter : {None, SCHEDULED}] :
        /\ r.filter # None <=> r.workitem_uid = FILTERED_SUBSCRIPTION_UID
        /\ r.deletion_lock => r.workitem_uid = GLOBAL_SUBSCRIPTION_UID}

NextSnapshot ==
    \/ \E r \in SnapshotRequests, a \in SubAETitles :
          /\ rows_with_key(r.workitem_uid, a) = <<>>
          /\ Subscribe(r.workitem_uid, a, r.deletion_lock, r.filter)
    \/ \E uid \in WorkItemUIDs, ds \in CreateBodies : CreateWorkItem(uid, ds)
    \/ \E uid \in WorkItemUIDs : ChangeState(uid, IN_PROGRESS, "T1")

SpecSnapshot == Init /\ [][NextSnapshot]_vars

\* The step is a subscribe request; new_rows are the rows it added.
subscribes == resp'.op = "subscribe" /\ created_clock' = created_clock + 1

new_rows == {x \in SeqToSet(subscription_store') : x.created_at = created_clock'}

\* C24: a subscribe request adds the subscription to the store and the
\* subscriber to both registry indices for the target, and when building its
\* snapshot raises, the request is still answered 201 with the row and the
\* registry entries in place.
C24_SnapshotFailureSwallowed ==
    [][subscribes =>
          /\ \E x \in new_rows :
                /\ x.workitem_uid = resp'.uid /\ x.ae_title = resp'.arg /\ ~x.suspended
          /\ \A x \in new_rows :
                snapshot_raises(local_store, store_order, x) =>
                   /\ resp'.code = 201
                   /\ x.ae_title \in get_subscribers(subscriptions', x.workitem_uid)
                   /\ x.workitem_uid \in subscriber_to_workitems'[x.ae_title]]_vars

\* The last request was a subscribe with deletion lock to the GLOBAL target
\* while a stored work item lacks InputReadinessState: it was answered 201 and
\* its row is in the store.
C24_Witness ==
    /\ resp.op = "subscribe" /\ resp.code = 201
    /\ \E i \in DOMAIN subscription_store :
          /\ subscription_store[i].created_at = created_clock
          /\ subscription_store[i].workitem_uid = GLOBAL_SUBSCRIPTION_UID
          /\ subscription_store[i].deletion_lock
          /\ snapshot_raises(local_store, store_order, subscription_store[i])
          /\ subscription_store[i].ae_title
                \in get_subscribers(subscriptions, GLOBAL_SUBSCRIPTION_UID)

(***************************************************************************)
(* Message ids: the counter of the event builder, started shortly before   *)
(* its wrap (the state after that many reports were built), and the        *)
(* building of one report after the other.                                 *)
(***************************************************************************)
IdStarts == (MaxMessageID - IdWindow)..MaxMessageID

InitIds ==
    /\ local_store = [u \in WorkItemUIDs |-> NoItem]
    /\ store_order = <<>>
    /\ subscription_store = <<>>
    /\ connections = [s \in AETitles |-> 0]
    /\ subscriptions = [t \in Targets |-> [present |-> FALSE, subs |-> {}]]
    /\ subscriber_to_workitems = [s \in AETitles |-> {}]
    /\ pending_notifications = [s \in AETitles |-> <<>>]
    /\ message_id \in IdStarts
    /\ sendq = <<>>
    /\ tasks = <<>>
    /\ created_clock = 0
    /\ sent = [s \in AETitles |-> <<>>]
    /\ resp = NoResp
    /\ suspension = [s \in AETitles |-> NoSuspension]
    /\ requests = [r \in RequestIds |-> NoRequest]

\* _create_workitem_event_report takes the next message id for its report.
IssueMessageId ==
    /\ message_id' = get_next_message_id(message_id)
    /\ UNCHANGED <<local_store, store_order, subscription_store, connections, subscriptions,
                   subscriber_to_workitems, pending_notifications, sendq, tasks,
                   created_clock, sent, resp, suspension, requests>>

NextIds == IssueMessageId

SpecIds == InitIds /\ [][NextIds]_vars

\* C25: every message id the event builder issues lies in 1..65534 and is its
\* predecessor plus one, except that the id issued after 65534 is 1.
C25_MessageIdRange ==
    [][message_id' # message_id =>
          /\ message_id' \in 1..MaxMessageID
          /\ message_id' = (IF message_id = MaxMessageID THEN 1 ELSE message_id + 1)]_vars

\* C26: when the fan-out that follows a committed create or state change
\* fails (building the event report raises), the change is in the store and
\* the request is answered with success: 201 for the create, 200 for the state
\* change.
C26_FanOutFailureNotReported ==
    [][\A u \in WorkItemUIDs :
          (/\ Answered("create", u) \/ Answered("state", u)
           /\ local_store'[u] # local_store[u]
           /\ report_raises(local_store'[u]))
            => resp'.code = (IF resp'.op = "create" THEN 201 ELSE 200)]_vars

\* The state of C27 is the status field, which the handlers decide on.
Started == {IN_PROGRESS, COMPLETED, CANCELED}

claimed_items(x) ==
    LET stored == {u \in WorkItemUIDs : Stored(u)}
    IN  IF x.workitem_uid = GLOBAL_SUBSCRIPTION_UID
        THEN (IF x.deletion_lock THEN stored ELSE {})
        ELSE IF x.workitem_uid = FILTERED_SUBSCRIPTION_UID
        THEN {u \in stored : match_query_to_dataset(x.filter, local_store[u].ds)}
        ELSE stored \cap {x.workitem_uid}

\* The events a step appends to the queue of subscriber a.
appended(a) ==
    SubSeq(pending_notifications'[a], Len(pending_notifications[a]) + 1,
           Len(pending_notifications'[a]))

\* The subscribe request of row x appends exactly one State event for each of
\* the work items of C28.
snapshot_exact(x) ==
    LET added == appended(x.ae_title)
    IN  /\ Len(added) = Cardinality(claimed_items(x))
        /\ {added[i].AffectedSOPInstanceUID : i \in DOMAIN added} = claimed_items(x)
        /\ \A i \in DOMAIN added : added[i].EventTypeID = UPSStateReport

\* The snapshot is exact whenever each of its reports can be built.
SnapshotExactWhenBuilt ==
    [][subscribes =>
          \A x \in new_rows :
              ~snapshot_raises(local_store, store_order, x) => snapshot_exact(x)]_vars

\* C28: a subscribe request appends to the subscriber's pending queue exactly
\* one State event for the target item when the target is a work item in the
\* store (none when it is absent), one per stored work item when the target is
\* GLOBAL with deletion lock (none without), and one per stored work item that
\* matches the filter when the target is FILTERED.
C28_SnapshotExact ==
    [][subscribes => \A x \in new_rows : snapshot_exact(x)]_vars

\* The other of the two well-known targets.
other_target(t) ==
    IF t = GLOBAL_SUBSCRIPTION_UID THEN FILTERED_SUBSCRIPTION_UID ELSE GLOBAL_SUBSCRIPTION_UID

\* A suspend request of subscriber a on the path of target p acts on a's
\* subscription for p: it is answered 404 exactly when a has no row for p,
\* otherwise 200 with a suspended row for p afterwards, and the rows of a for
\* the other target are the same before and after.
suspend_acts_on(p, a) ==
    (resp'.op = "suspend" /\ resp'.uid = p /\ resp'.arg = a)
       => /\ resp'.code = (IF rows_with_key(p, a) = <<>> THEN 404 ELSE 200)
          /\ resp'.code = 200
                => \E i \in DOMAIN subscription_store' :
                      /\ subscription_store'[i].workitem_uid = p
                      /\ subscription_store'[i].ae_title = a
                      /\ subscription_store'[i].suspended
          /\ get_by_workitem_and_ae_title(subscription_store', other_target(p), a)
                = rows_with_key(other_target(p), a)

\* The statement of C29 for the path of the GLOBAL target.
SuspendOnGlobalPath ==
    [][\A a \in AETitles : suspend_acts_on(GLOBAL_SUBSCRIPTION_UID, a)]_vars

\* C29: a suspend request on the FILTERED path acts on the subscriber's
\* FILTERED subscription and one on the GLOBAL path on its GLOBAL
\* subscription; each is answered 404 exactly when the subscriber has no
\* subscription for that target and never alters one for the other target.
C29_SuspendActsOnPathTarget ==
    [][\A p \in SuspendPaths, a \in AETitles : suspend_acts_on(p, a)]_vars

\* The step is a suspend request that leaves the store, the registry indices
\* and the pending queues as they are and is answered 404 (suspend returned
\* False).
suspend_refused ==
    /\ resp'.code = 404
    /\ UNCHANGED <<subscription_store, subscriptions, subscriber_to_workitems,
                   pending_notifications>>

\* suspend returns False and changes nothing when the subscriber has no row
\* for the target.
SuspendWithoutRow ==
    [][\A a \in AETitles :
          (/\ resp'.op = "suspend" /\ resp'.arg = a
           /\ rows_with_key(suspend_target(resp'.uid), a) = <<>>)
            => suspend_refused]_vars

\* C30: suspend(target, subscriber) returns false and changes neither the
\* Subscription Store, the registry indices nor the pending queues when the
\* subscriber has no row for the target that is not suspended, also when its
\* only row for the target is suspended already.
C30_SuspendNeedsActiveRow ==
    [][\A a \in AETitles :
          (/\ resp'.op = "suspend" /\ resp'.arg = a
           /\ \A i \in DOMAIN rows_with_key(suspend_target(resp'.uid), a) :
                 rows_with_key(suspend_target(resp'.uid), a)[i].suspended)
            => suspend_refused]_vars

\* The two registry indices are inverses of each other for these values.
indices_inverse(idx, s2w) ==
    \A s \in AETitles, t \in Targets :
        s \in get_subscribers(idx, t) <=> t \in s2w[s]

\* Subscribe, unsubscribe, suspend and the channel steps keep the two indices
\* inverse; only a step that fans an event out (it issues a message id without
\* changing the subscription store) can part them.
IndicesInverseButFanOut ==
    [][(/\ indices_inverse(subscriptions, subscriber_to_workitems)
        /\ ~(message_id' # message_id /\ subscription_store' = subscription_store))
          => indices_inverse(subscriptions', subscriber_to_workitems')]_vars

ScheduledInGenerationOrder ==
    \A i, j \in DOMAIN sendq :
        (/\ i < j
         /\ sendq[i].subscriber_id = sendq[j].subscriber_id
         /\ sendq[i].message.AffectedSOPInstanceUID = sendq[j].message.AffectedSOPInstanceUID)
          => sendq[i].message.MessageID < sendq[j].message.MessageID

C33_UpdateKeepsState ==
    [][\A u \in WorkItemUIDs :
          (Stored(u) /\ Answered("update", u))
             => /\ local_store'[u].ds.ProcedureStepState = local_store[u].ds.ProcedureStepState
                /\ local_store'[u].status = local_store[u].status
                /\ local_store'[u].transaction_uid = local_store[u].transaction_uid]_vars

\* An IN PROGRESS item has accepted, under its transaction_uid, an update whose
\* body carried COMPLETED: the new start date is stored and the state is still
\* IN PROGRESS.
C33_Witness ==
    \E u \in WorkItemUIDs :
        /\ Stored(u)
        /\ local_store[u].status = IN_PROGRESS
        /\ local_store[u].ds.ProcedureStepState = IN_PROGRESS
        /\ local_store[u].ds.ScheduledProcedureStepStartDateTime = "D2"
        /\ local_store[u].transaction_uid # None
        /\ resp = Response("update", u, 200, COMPLETED, local_store[u].transaction_uid)

(***************************************************************************)
(* State requests with a listener: one subscriber with a GLOBAL            *)
(* subscription, and every create, state-change and cancel request on one  *)
(* work item.                                                              *)
(***************************************************************************)
NextState ==
    \/ \E a \in NotifyAETitles :
          subscription_store = <<>> /\ Subscribe(GLOBAL_SUBSCRIPTION_UID, a, FALSE, None)
    \/ \E uid \in RequestUIDs, ds \in CreateBodies : CreateWorkItem(uid, ds)
    \/ \E uid \in RequestUIDs, st \in WorkItemStatus \cup {None},
          t \in TransactionUIDs \cup {None} : ChangeState(uid, st, t)
    \/ \E uid \in RequestUIDs, ds \in CancelBodies : CancelWorkItem(uid, ds)

SpecState == Init /\ [][NextState]_vars

Rejections == {404, 400, 409, 410}

\* C34: a state-change request that is rejected (404, 400, 409 or 410) leaves
\* the work-item store, and so the item's record, state and transaction_uid,
\* unchanged and emits no event: no message id is issued, no send is scheduled
\* for any subscriber and nothing is queued or written.
C34_RejectedStateChangeNoEffect ==
    [][\A u \in WorkItemUIDs :
          (Answered("state", u) /\ resp'.code \in Rejections)
             => /\ local_store' = local_store
                /\ \A s \in AETitles : scheduled(s) = {}
                /\ UNCHANGED <<message_id, sendq, pending_notifications, sent>>]_vars

\* With a GLOBAL subscriber listening, an IN PROGRESS item locked by T1 has
\* rejected the request to complete it under T2 and is still IN PROGRESS under
\* T1.
C34_Witness ==
    \E u \in WorkItemUIDs :
        /\ has_active_global("AE1")
        /\ Stored(u)
        /\ local_store[u].status = IN_PROGRESS
        /\ local_store[u].ds.ProcedureStepState = IN_PROGRESS
        /\ local_store[u].transaction_uid = "T1"
        /\ resp = Response("state", u, 400, COMPLETED, "T2")

(***************************************************************************)
(* Concurrent state requests: requests to start or complete the work item  *)
(* arrive while others are in flight; each handler awaits its body and     *)
(* then runs.  One subscriber may hold a GLOBAL subscription.              *)
(***************************************************************************)
\* A state request arrives: on_put is entered and awaits the request body.
Arrive(r, uid, procedure_step_state, transaction_uid) ==
    /\ requests[r].pc = "idle"
    /\ requests' = [requests EXCEPT ![r] =
                       [pc |-> "body", uid |-> uid, state |-> procedure_step_state,
                        tuid |-> transaction_uid, seen |-> local_store[uid],
                        code |-> 0, events |-> 0]]
    /\ UNCHANGED <<local_store, store_order, subscription_store, connections, subscriptions,
                   subscriber_to_workitems, pending_notifications, message_id, sendq,
                   tasks, created_clock, sent, resp, suspension>>

\* The body of request r has been read: the handler runs to its answer.
StateRequestRuns(r) ==
    /\ requests[r].pc = "body"
    /\ state_on_put(requests[r].uid, requests[r].state, requests[r].tuid)
    /\ requests' = [requests EXCEPT ![r].pc = "done", ![r].code = resp'.code,
                                    ![r].events = message_id' - message_id]

NextRace ==
    \/ \E a \in NotifyAETitles :
          subscription_store = <<>> /\ Subscribe(GLOBAL_SUBSCRIPTION_UID, a, FALSE, None)
    \/ \E uid \in RequestUIDs, ds \in CreateBodies : CreateWorkItem(uid, ds)
    \/ \E r \in RequestIds, uid \in RequestUIDs, st \in {IN_PROGRESS, COMPLETED},
          t \in TransactionUIDs : Arrive(r, uid, st, t)
    \/ \E r \in RequestIds : StateRequestRuns(r)

SpecRace == Init /\ [][NextRace]_vars

\* Requests r1 and r2 were processed concurrently: both asked to start the
\* same work item, under different transaction UIDs, both arrived while the
\* item was SCHEDULED, and both have been answered.
concurrent_starts(r1, r2) ==
    /\ r1 # r2
    /\ requests[r1].pc = "done" /\ requests[r2].pc = "done"
    /\ requests[r1].state = IN_PROGRESS /\ requests[r2].state = IN_PROGRESS
    /\ requests[r1].uid = requests[r2].uid
    /\ requests[r1].tuid # requests[r2].tuid
    /\ requests[r1].seen # NoItem /\ requests[r1].seen.status = SCHEDULED
    /\ requests[r2].seen # NoItem /\ requests[r2].seen.status = SCHEDULED

\* Request w won against request l.
one_winner(w, l) ==
    /\ requests[w].code = 200
    /\ requests[l].code \in Rejections
    /\ requests[w].events = 1 /\ requests[l].events = 0
    /\ local_store[requests[w].uid].transaction_uid = requests[w].tuid

\* The claim for work items whose State report can be built.
ConcurrentStartsOneWinnerWhenReported ==
    \A r1, r2 \in RequestIds :
        (concurrent_starts(r1, r2) /\ ~report_raises(requests[r1].seen))
           => (one_winner(r1, r2) \/ one_winner(r2, r1))

\* C35: when two state-change requests to IN PROGRESS carrying different
\* transaction UIDs are processed concurrently for the same SCHEDULED work
\* item, exactly one is answered 200, the other is rejected, exactly one
\* state-change event is emitted, and the stored transaction_uid is the one of
\* the request answered 200.
C35_OneConcurrentStartWins ==
    \A r1, r2 \in RequestIds :
        concurrent_starts(r1, r2) => (one_winner(r1, r2) \/ one_winner(r2, r1))

\* The store holds a subscription of s for t that is not suspended.
has_active_row(sstore, t, s) ==
    \E i \in DOMAIN sstore :
        /\ sstore[i].workitem_uid = t /\ sstore[i].ae_title = s
        /\ ~sstore[i].suspended

\* A subscribe request leaves the subscriber in the index of its target and a
\* row that is not suspended in the store.
SubscribeAgrees ==
    [][\A t \in Targets, a \in AETitles :
          (resp'.op = "subscribe" /\ resp'.uid = t /\ resp'.arg = a
           /\ created_clock' # created_clock)
            => /\ a \in get_subscribers(subscriptions', t)
               /\ has_active_row(subscription_store', t, a)]_vars

\* C36: in every reachable state the registry index agrees with the
\* Subscription Store: subscriber S is in subscribers_for(T) if and only if
\* the store holds a non-suspended subscription with key (T, S); so after a
\* suspend of (T, S) has returned true S is not in subscribers_for(T).
C36_RegistryAgreesWithStore ==
    \A t \in Targets, s \in AETitles :
        s \in get_subscribers(subscriptions, t) <=> has_active_row(subscription_store, t, s)

(***************************************************************************)
(* Mixed subscriptions: one subscriber holds subscriptions for the work    *)
(* item of the requests, the GLOBAL and the FILTERED target (one row per   *)
(* target) and suspends; requests create the work item and start it.       *)
(***************************************************************************)
MixedRequests ==
    {r \in [workitem_uid : SubTargets, deletion_lock : {FALSE}, filter : {None, SCHEDULED}] :
        r.filter # None <=> r.workitem_uid = FILTERED_SUBSCRIPTION_UID}

NextMixed ==
    \/ \E r \in MixedRequests, a \in NotifyAETitles :
          /\ rows_with_key(r.workitem_uid, a) = <<>>
          /\ Subscribe(r.workitem_uid, a, r.deletion_lock, r.filter)
    \/ \E path_uid \in SuspendPaths, a \in NotifyAETitles : Suspend(path_uid, a)
    \/ \E uid \in RequestUIDs, ds \in NotifyBodies : CreateWorkItem(uid, ds)
    \/ \E uid \in RequestUIDs : ChangeState(uid, IN_PROGRESS, "T1")

SpecMixed == Init /\ [][NextMixed]_vars

\* The step fans out an event of work item u: a create or state request that
\* issued an event report.
fans_out(u) ==
    /\ resp'.op \in {"create", "state"} /\ resp'.uid = u
    /\ message_id' # message_id

\* The subscription row routes the events of work item u of this step.
routes(row, u) ==
    \/ row.workitem_uid = u
    \/ row.workitem_uid = GLOBAL_SUBSCRIPTION_UID
    \/ /\ row.workitem_uid = FILTERED_SUBSCRIPTION_UID
       /\ row.filter # None
       /\ match_query_to_dataset(row.filter, local_store'[u].ds)

\* The rows of subscriber s that route the events of work item u.
routing_rows(s, u) ==
    {i \in DOMAIN subscription_store :
        subscription_store[i].ae_title = s /\ routes(subscription_store[i], u)}

\* With a single subscription the rule holds: the event is withheld exactly
\* when that subscription is suspended.
SuspensionOfOnlySubscription ==
    [][\A s \in AETitles, u \in WorkItemUIDs :
          (/\ fans_out(u) /\ routing_rows(s, u) # {}
           /\ Len(get_by_ae_title(subscription_store, s)) = 1)
            => (scheduled(s) = {}
                  <=> \A i \in routing_rows(s, u) : subscription_store[i].suspended)]_vars

\* C37: suspension is per subscription: when subscriber S holds several
\* subscriptions, an event is withheld from S exactly when every subscription
\* of S that routes the event is suspended; a suspended subscription for
\* another target does not block an event routed by a non-suspended one, and
\* a non-suspended one for another target does not let through an event
\* routed only by a suspended one.
C37_SuspensionPerSubscription ==
    [][\A s \in AETitles, u \in WorkItemUIDs :
          (fans_out(u) /\ routing_rows(s, u) # {})
            => (scheduled(s) = {}
                  <=> \A i \in routing_rows(s, u) : subscription_store[i].suspended)]_vars

\* A connect callback of subscriber s that is still in its loop has attempted
\* the send of event m: m is in the list it iterates, before its position.
send_attempted(s, m) ==
    \E c \in DOMAIN tasks :
        /\ tasks[c].subscriber_id = s /\ tasks[c].pc = "drain"
        /\ \E i \in DOMAIN drained_list(tasks[c]) :
              i < tasks[c].idx /\ drained_list(tasks[c])[i] = m

\* The events a step removes from the pending queue of subscriber s.
removed(s) ==
    {pending_notifications[s][i] : i \in DOMAIN pending_notifications[s]}
        \ {pending_notifications'[s][i] : i \in DOMAIN pending_notifications'[s]}

\* A connect callback during which no other callback of the subscriber has
\* replaced the queue removes only events it has attempted to send, whatever
\* subscribes appended to the queue meanwhile.
NoLossWithinOneDrain ==
    [][\A c \in 1..MaxChannels :
          (/\ c \in DOMAIN tasks /\ tasks[c].pc = "drain" /\ tasks[c].live
           /\ tasks'[c].pc = "read")
            => \A m \in removed(tasks[c].subscriber_id) :
                  \E i \in DOMAIN drained_list(tasks[c]) :
                     i < tasks[c].idx /\ drained_list(tasks[c])[i] = m]_vars

====
